---- MODULE Spec2Model ----
(***************************************************************************)
(* Task entity and task collection manager of the Epic Todo List           *)
(* (scripts/models: class Task, class TaskManager) together with the       *)
(* storage adapter's task snapshot (scripts/storage.js).                   *)
(*                                                                         *)
(* Strings that the code trims are sequences of one-character strings;     *)
(* so are descriptions, search queries and tags; priorities and categories *)
(* are plain strings ("" is the falsy string); an id is a pair (<<>> is the falsy id); timestamps are   *)
(* naturals, 0 standing for null; an options / updates / record object is  *)
(* a TLA+ record whose DOMAIN is the set of keys it carries.               *)
(***************************************************************************)
EXTENDS Integers, Sequences, FiniteSets, TLC

VARIABLES
    tasks,      \* TaskManager.tasks: sequence of Task records, newest first
    stored,     \* the storage adapter's snapshot: sequence of plain records
    now,        \* the clock read by new Date()
    nextGen,    \* number of ids generateId() has produced so far
    last,       \* the last manager call: operation, outcome, return value
    events,     \* the events dispatched by the last manager call, in order
    view,       \* TaskManager.filter, searchQuery, sortBy and sortOrder
    writable,   \* whether localStorage.setItem succeeds at present
    importJob   \* the file import of the page that is under way, if any

vars == <<tasks, stored, now, nextGen, last, events, view, writable, importJob>>

-----------------------------------------------------------------------------
(* Bounds of the model *)

MaxTasks == 3       \* largest collection the operations may build
MaxApiTasks == 2    \* the same, when callers pass arbitrary options and updates
MaxClock == 2       \* last instant of the clock
MaxGen == 3         \* how many ids generateId() may hand out

-----------------------------------------------------------------------------
(* Strings *)

Space == " "

RECURSIVE TrimStart(_)
TrimStart(s) ==
    IF s = <<>> THEN <<>>
    ELSE IF Head(s) = Space THEN TrimStart(Tail(s)) ELSE s

RECURSIVE TrimEnd(_)
TrimEnd(s) ==
    IF s = <<>> THEN <<>>
    ELSE IF s[Len(s)] = Space THEN TrimEnd(SubSeq(s, 1, Len(s) - 1)) ELSE s

\* String.prototype.trim
Trim(s) == TrimEnd(TrimStart(s))

NullTime == 0

-----------------------------------------------------------------------------
(* Task entity *)

\* options.key || dflt, for string-valued keys
OrStr(options, key, dflt) ==
    IF key \in DOMAIN options /\ options[key] # "" THEN options[key] ELSE dflt

\* options.key || dflt, for timestamp-valued keys
OrTime(options, key, dflt) ==
    IF key \in DOMAIN options /\ options[key] # NullTime THEN options[key] ELSE dflt

\* options.completed || false
OrBool(options, key) ==
    IF key \in DOMAIN options THEN options[key] ELSE FALSE

\* options.description || ''
OrText(options, key) ==
    IF key \in DOMAIN options THEN options[key] ELSE <<>>

\* options.tags || []
OrTags(options, key) ==
    IF key \in DOMAIN options THEN options[key] ELSE <<>>

\* Task.generateId: the n-th generated id
generateId(n) == <<"task", n>>

\* Explicit ids are drawn from the same space as generated ones
ExplicitId(n) == <<"given", n>>
NoId == <<>>

OrId(options, key, dflt) ==
    IF key \in DOMAIN options /\ options[key] # NoId THEN options[key] ELSE dflt

\* new Task(text, options) at instant t, gen being the id generateId() returns
Task(text, options, gen, t) ==
    [ id          |-> OrId(options, "id", gen),
      text        |-> Trim(text),
      completed   |-> OrBool(options, "completed"),
      createdAt   |-> OrTime(options, "createdAt", t),
      completedAt |-> OrTime(options, "completedAt", NullTime),
      updatedAt   |-> OrTime(options, "updatedAt", t),
      priority    |-> OrStr(options, "priority", "normal"),
      category    |-> OrStr(options, "category", "default"),
      tags        |-> OrTags(options, "tags"),
      dueDate     |-> OrTime(options, "dueDate", NullTime),
      description |-> OrText(options, "description") ]

\* whether the constructor called generateId()
UsesGen(options) == ~("id" \in DOMAIN options /\ options["id"] # NoId)

\* Task.toggle
toggle(task, t) ==
    [task EXCEPT !.completed = ~task.completed,
                 !.completedAt = IF ~task.completed THEN t ELSE NullTime,
                 !.updatedAt = t]

\* Task.updateText
updateText(task, newText, t) ==
    IF Trim(newText) # <<>>
    THEN [task EXCEPT !.text = Trim(newText), !.updatedAt = t]
    ELSE task

ValidPriorities == {"low", "normal", "high"}

\* Task.setPriority
setPriority(task, priority, t) ==
    IF priority \in ValidPriorities
    THEN [task EXCEPT !.priority = priority, !.updatedAt = t]
    ELSE task

\* an argument of setDueDate that is neither a Date, a non-empty string nor null
BadDate == -1

\* Task.setDueDate
setDueDate(task, date, t) ==
    IF date = BadDate THEN task
    ELSE [task EXCEPT !.dueDate = date, !.updatedAt = t]

\* Task.toJSON
toJSON(task) ==
    [ id          |-> task.id,
      text        |-> task.text,
      completed   |-> task.completed,
      createdAt   |-> task.createdAt,
      completedAt |-> task.completedAt,
      updatedAt   |-> task.updatedAt,
      priority    |-> task.priority,
      category    |-> task.category,
      tags        |-> [i \in 1..Len(task.tags) |-> task.tags[i]],
      dueDate     |-> task.dueDate,
      description |-> task.description ]

\* Task.fromJSON throws a TypeError when data.text is not a string
fromJSONThrows(data) == "text" \notin DOMAIN data

\* Task.fromJSON
fromJSON(data, gen, t) == Task(data.text, data, gen, t)

-----------------------------------------------------------------------------
(* Errors thrown to the caller, named by the message the code gives them *)

NoError == "none"
EmptyTextError == "Error: task text must not be empty"
NotFoundErr == "Error: task does not exist"
ImportFormatError == "Error: import data format error"
TypeErr == "TypeError: cannot read properties of undefined"

-----------------------------------------------------------------------------
(* Inputs *)

\* the texts callers pass: empty, blank, plain, and padded with blanks
Texts == { <<>>, <<Space>>, <<"a">>, <<Space, "a", Space>> }

NoOptions == <<>>

\* the option objects callers pass to addTask
AddOptions ==
    { NoOptions,
      [id |-> ExplicitId(1)],
      [completed |-> TRUE] }

\* the update maps callers pass to updateTask, as the sequence of their
\* entries in Object.keys order
UpdateMaps ==
    { << [text |-> <<>>] >>,
      << [text |-> <<Space>>] >>,
      << [completed |-> TRUE] >>,
      << [priority |-> "urgent"] >>,
      << [id |-> ExplicitId(1)] >>,
      << [category |-> ""] >>,
      << [colour |-> "red"] >>,
      << [text |-> <<"a", Space>>], [priority |-> "high"], [description |-> <<>>] >> }

\* the ids callers name
Ids == {generateId(n) : n \in 1..MaxGen} \cup {ExplicitId(1)}

\* the clock is read once per call; time may have passed since the last call
Instants == {t \in now..(now + 1) : t <= MaxClock}

-----------------------------------------------------------------------------
(* Task collection manager *)

Event(type, count) == [type |-> type, count |-> count]
NoCount == -1

\* the record of a call: what was called, on what, how it ended
Call(op, id, text, err, ret, old) ==
    [op |-> op, id |-> id, text |-> text, err |-> err, ret |-> ret, old |-> old]

\* TaskManager.saveTasks handing the list to StorageManager.saveTasks
saveTasks(ts) == [i \in 1..Len(ts) |-> toJSON(ts[i])]

\* a store that takes the write although setItem throws
writtenAnyway(snapshot, ts) == saveTasks(ts)

\* StorageManager.saveTasks: the snapshot after the write, which is the old
\* one when setItem throws and false is returned
written(snapshot, ts) == IF writable THEN saveTasks(ts) ELSE snapshot

\* TaskManager.getAllTasks
getAllTasks(ts) == [i \in 1..Len(ts) |-> ts[i]]

\* the guard of addTask without its trim: only the empty string is refused
isEmptyOnly(text) == text = <<>>

\* the guard of addTask: !text || !text.trim()
isBlank(text) == text = <<>> \/ Trim(text) = <<>>

\* unshift replaced by push: the new task goes to the end
pushLast(ts, task) == Append(ts, task)

\* Array.prototype.unshift
unshift(ts, task) == <<task>> \o ts

\* findIndex whose "absent" answer is taken for a position: splice(-1, 1)
\* then removes the last task
findIndexUnchecked(ts, taskId) ==
    IF \E i \in 1..Len(ts) : ts[i].id = taskId
    THEN CHOOSE i \in 1..Len(ts) :
            /\ ts[i].id = taskId
            /\ \A j \in 1..(i - 1) : ts[j].id # taskId
    ELSE Len(ts)

\* Array.prototype.findIndex(task => task.id === taskId); 0 when absent
findIndex(ts, taskId) ==
    IF \E i \in 1..Len(ts) : ts[i].id = taskId
    THEN CHOOSE i \in 1..Len(ts) :
            /\ ts[i].id = taskId
            /\ \A j \in 1..(i - 1) : ts[j].id # taskId
    ELSE 0

\* a filter that hands back the kept tasks in reverse order
RECURSIVE SelectTasksReversed(_, _)
SelectTasksReversed(ts, keepCompleted) ==
    IF ts = <<>> THEN <<>>
    ELSE IF Head(ts).completed = keepCompleted
         THEN SelectTasksReversed(Tail(ts), keepCompleted) \o <<Head(ts)>>
         ELSE SelectTasksReversed(Tail(ts), keepCompleted)

\* Array.prototype.filter on the completed flag
RECURSIVE SelectTasks(_, _)
SelectTasks(ts, keepCompleted) ==
    IF ts = <<>> THEN <<>>
    ELSE IF Head(ts).completed = keepCompleted
         THEN <<Head(ts)>> \o SelectTasks(Tail(ts), keepCompleted)
         ELSE SelectTasks(Tail(ts), keepCompleted)

\* taskData.map(data => Task.fromJSON(data)), gen ids having been generated
RECURSIVE loadAll(_, _, _)
loadAll(datas, gen, t) ==
    IF datas = <<>> THEN <<>>
    ELSE <<fromJSON(Head(datas), generateId(gen + 1), t)>>
         \o loadAll(Tail(datas),
                    IF UsesGen(Head(datas)) THEN gen + 1 ELSE gen, t)

\* how many ids that map generates
RECURSIVE countGen(_)
countGen(datas) ==
    IF datas = <<>> THEN 0
    ELSE (IF UsesGen(Head(datas)) THEN 1 ELSE 0) + countGen(Tail(datas))

\* the view the constructor sets, and reset restores
DefaultView ==
    [filter |-> "all", searchQuery |-> <<>>, sortBy |-> "createdAt",
     sortOrder |-> "desc"]

\* no file import is under way
NoJob == [phase |-> "idle"]

\* the manager constructed on a fresh store: loadTasks finds nothing
Init ==
    /\ view = DefaultView
    /\ writable = TRUE
    /\ importJob = NoJob
    /\ tasks = <<>>
    /\ stored = <<>>
    /\ now = 1
    /\ nextGen = 0
    /\ last = Call("constructor", NoId, <<>>, NoError, <<>>, <<>>)
    /\ events = <<Event("tasksLoaded", 0), Event("tasksChanged", NoCount)>>

\* TaskManager.addTask
AddTask(text, options, t) ==
    /\ now' = t
    /\ UNCHANGED <<writable, importJob>>
    /\ UNCHANGED view
    /\ IF isBlank(text)
       THEN /\ last' = Call("addTask", NoId, text, EmptyTextError, <<>>, <<>>)
            /\ events' = <<>>
            /\ UNCHANGED <<tasks, stored, nextGen>>
       ELSE /\ Len(tasks) < MaxTasks
            /\ UsesGen(options) => nextGen < MaxGen
            /\ LET task == Task(text, options, generateId(nextGen + 1), t)
               IN /\ tasks' = unshift(tasks, task)
                  /\ stored' = written(stored, tasks')
                  /\ last' = Call("addTask", NoId, text, NoError, <<task>>, <<>>)
            /\ nextGen' = IF UsesGen(options) THEN nextGen + 1 ELSE nextGen
            /\ events' = <<Event("taskAdded", NoCount),
                           Event("tasksChanged", NoCount)>>

\* TaskManager.removeTask
RemoveTask(taskId, t) ==
    /\ now' = t
    /\ UNCHANGED <<writable, importJob>>
    /\ UNCHANGED view
    /\ UNCHANGED nextGen
    /\ LET index == findIndex(tasks, taskId)
       IN IF index = 0
          THEN /\ last' = Call("removeTask", taskId, <<>>, NotFoundErr, <<>>, <<>>)
               /\ events' = <<>>
               /\ UNCHANGED <<tasks, stored>>
          ELSE /\ tasks' = SubSeq(tasks, 1, index - 1)
                           \o SubSeq(tasks, index + 1, Len(tasks))
               /\ stored' = written(stored, tasks')
               /\ last' = Call("removeTask", taskId, <<>>, NoError,
                               <<tasks[index]>>, <<>>)
               /\ events' = <<Event("taskRemoved", NoCount),
                              Event("tasksChanged", NoCount)>>

\* the body of the forEach of TaskManager.updateTask, for one entry
applyUpdate(task, u, t) ==
    LET key == CHOOSE k \in DOMAIN u : TRUE
    IN IF key = "text" /\ u[key] # <<>> THEN updateText(task, u[key], t)
       ELSE IF key = "priority" THEN setPriority(task, u[key], t)
       ELSE IF key = "dueDate" THEN setDueDate(task, u[key], t)
       ELSE IF key = "completed"
            THEN IF u[key] # task.completed THEN toggle(task, t) ELSE task
       ELSE IF key \in DOMAIN task
            THEN [[task EXCEPT ![key] = u[key]] EXCEPT !.updatedAt = t]
       ELSE task

\* Object.keys(updates).forEach(...)
RECURSIVE applyUpdates(_, _, _)
applyUpdates(task, updates, t) ==
    IF updates = <<>> THEN task
    ELSE applyUpdates(applyUpdate(task, Head(updates), t), Tail(updates), t)

\* the collection after updateTask(taskId, updates): the first task with that
\* id is mutated in place
updated(ts, taskId, updates, t) ==
    [ts EXCEPT ![findIndex(ts, taskId)] =
        applyUpdates(ts[findIndex(ts, taskId)], updates, t)]

\* the two dispatches of updateTask in the other order
UpdateEventsGenericFirst ==
    <<Event("tasksChanged", NoCount), Event("taskUpdated", NoCount)>>

UpdateEvents == <<Event("taskUpdated", NoCount), Event("tasksChanged", NoCount)>>

\* TaskManager.updateTask
UpdateTask(taskId, updates, t) ==
    /\ now' = t
    /\ UNCHANGED <<writable, importJob>>
    /\ UNCHANGED view
    /\ UNCHANGED nextGen
    /\ IF findIndex(tasks, taskId) = 0
       THEN /\ last' = Call("updateTask", taskId, <<>>, NotFoundErr, <<>>, <<>>)
            /\ events' = <<>>
            /\ UNCHANGED <<tasks, stored>>
       ELSE /\ tasks' = updated(tasks, taskId, updates, t)
            /\ stored' = written(stored, tasks')
            /\ last' = Call("updateTask", taskId, <<>>, NoError,
                            <<tasks'[findIndex(tasks, taskId)]>>,
                            <<tasks[findIndex(tasks, taskId)]>>)
            /\ events' = UpdateEvents

\* the update map toggleTask builds
toggleUpdates(task) == << [completed |-> ~task.completed] >>

\* TaskManager.toggleTask: getTask, then updateTask
ToggleTask(taskId, t) ==
    /\ now' = t
    /\ UNCHANGED <<writable, importJob>>
    /\ UNCHANGED view
    /\ UNCHANGED nextGen
    /\ IF findIndex(tasks, taskId) = 0
       THEN /\ last' = Call("toggleTask", taskId, <<>>, NotFoundErr, <<>>, <<>>)
            /\ events' = <<>>
            /\ UNCHANGED <<tasks, stored>>
       ELSE /\ tasks' = updated(tasks, taskId,
                                toggleUpdates(tasks[findIndex(tasks, taskId)]), t)
            /\ stored' = written(stored, tasks')
            /\ last' = Call("toggleTask", taskId, <<>>, NoError,
                            <<tasks'[findIndex(tasks, taskId)]>>,
                            <<tasks[findIndex(tasks, taskId)]>>)
            /\ events' = UpdateEvents

\* TaskManager.clearCompleted
ClearCompleted(t) ==
    /\ now' = t
    /\ UNCHANGED <<writable, importJob>>
    /\ UNCHANGED view
    /\ UNCHANGED nextGen
    /\ tasks' = SelectTasks(tasks, FALSE)
    /\ stored' = written(stored, tasks')
    /\ last' = Call("clearCompleted", NoId, <<>>, NoError,
                    SelectTasks(tasks, TRUE), <<>>)
    /\ events' = <<Event("completedCleared", Len(SelectTasks(tasks, TRUE))),
                   Event("tasksChanged", NoCount)>>

\* TaskManager.reset
Reset(t) ==
    /\ now' = t
    /\ UNCHANGED <<writable, importJob>>
    /\ view' = DefaultView
    /\ UNCHANGED nextGen
    /\ tasks' = <<>>
    /\ stored' = written(stored, tasks')
    /\ last' = Call("reset", NoId, <<>>, NoError, <<>>, <<>>)
    /\ events' = <<Event("tasksReset", NoCount), Event("tasksChanged", NoCount)>>

\* a stored string that JSON.parse rejects, or that holds no tasks array
Garbled == << [garbled |-> TRUE] >>

\* StorageManager.loadTasks: the stored list, or [] on any read failure
storageLoadTasks(snapshot) == IF snapshot = Garbled THEN <<>> ELSE snapshot

\* whether taskData.map(data => Task.fromJSON(data)) throws
mapThrows(taskData) == \E i \in 1..Len(taskData) : fromJSONThrows(taskData[i])

\* TaskManager.loadTasks: the collection it leaves
loadedTasks(taskData, gen, t) ==
    IF mapThrows(taskData) THEN <<>> ELSE loadAll(taskData, gen, t)

\* TaskManager.loadTasks: the events it dispatches
loadedEvents(taskData) ==
    IF mapThrows(taskData) THEN <<>>
    ELSE <<Event("tasksLoaded", Len(taskData)), Event("tasksChanged", NoCount)>>

\* new TaskManager() on a page load: the constructor and its loadTasks
Restart(t) ==
    /\ now' = t
    /\ UNCHANGED <<writable, importJob>>
    /\ view' = DefaultView
    /\ UNCHANGED stored
    /\ LET taskData == storageLoadTasks(stored)
       IN /\ nextGen + countGen(taskData) <= MaxGen
          /\ nextGen' = nextGen + countGen(taskData)
          /\ tasks' = loadedTasks(taskData, nextGen, t)
          /\ events' = loadedEvents(taskData)
    /\ last' = Call("constructor", NoId, <<>>, NoError, <<>>, <<>>)

-----------------------------------------------------------------------------
(* The derived view: filter, search and sorting *)

ValidFilters == {"all", "active", "completed"}
ValidSortBy == {"createdAt", "updatedAt", "priority", "text"}
ValidSortOrder == {"asc", "desc"}

\* a parameter the caller left out
Undefined == "undefined"

\* the default value of the sortOrder parameter
OrDesc(sortOrder) == IF sortOrder = Undefined THEN "desc" ELSE sortOrder

\* TaskManager.setFilter
SetFilter(filter, t) ==
    /\ now' = t
    /\ UNCHANGED <<writable, importJob>>
    /\ UNCHANGED <<tasks, stored, nextGen>>
    /\ IF filter \in ValidFilters
       THEN /\ view' = [view EXCEPT !.filter = filter]
            /\ events' = <<Event("filterChanged", NoCount)>>
            /\ last' = Call("setFilter", NoId, <<>>, NoError, <<TRUE>>, <<>>)
                        @@ [filter |-> filter]
       ELSE /\ UNCHANGED view
            /\ events' = <<>>
            /\ last' = Call("setFilter", NoId, <<>>, NoError, <<FALSE>>, <<>>)
                        @@ [filter |-> filter]

\* setSearchQuery announcing the collection as changed as well
SearchEventsWithChanged ==
    <<Event("searchChanged", NoCount), Event("tasksChanged", NoCount)>>

\* the dispatch of setSearchQuery
SearchEvents == <<Event("searchChanged", NoCount)>>

\* TaskManager.setSearchQuery
SetSearchQuery(query, t) ==
    /\ now' = t
    /\ UNCHANGED <<writable, importJob>>
    /\ UNCHANGED <<tasks, stored, nextGen>>
    /\ view' = [view EXCEPT !.searchQuery = Trim(query)]
    /\ events' = SearchEvents
    /\ last' = Call("setSearchQuery", NoId, query, NoError, <<>>, <<>>)

\* TaskManager.setSorting
SetSorting(sortBy, sortOrder, t) ==
    /\ now' = t
    /\ UNCHANGED <<writable, importJob>>
    /\ UNCHANGED <<tasks, stored, nextGen>>
    /\ view' = [view EXCEPT
                  !.sortBy = IF sortBy \in ValidSortBy THEN sortBy ELSE @,
                  !.sortOrder = IF OrDesc(sortOrder) \in ValidSortOrder
                                THEN OrDesc(sortOrder) ELSE @]
    /\ events' = <<Event("sortingChanged", NoCount)>>
    /\ last' = Call("setSorting", NoId, <<>>, NoError, <<>>, <<>>)
                @@ [sortBy |-> sortBy, sortOrder |-> sortOrder]

\* String.prototype.toLowerCase over the letters the texts are written in
LowerChar(c) ==
    CASE c = "A" -> "a"
      [] c = "B" -> "b"
      [] c = "C" -> "c"
      [] OTHER -> c

toLowerCase(str) == [i \in 1..Len(str) |-> LowerChar(str[i])]

\* String.prototype.includes
includes(str, sub) ==
    \E k \in 0..(Len(str) - Len(sub)) : SubSeq(str, k + 1, k + Len(sub)) = sub

\* the collation order of the characters of lower-case texts
Alphabet ==
    <<Space, "a", "b", "c", "d", "e", "i", "k", "l", "m", "n", "s", "t", "u", "y">>

CharRank(c) == CHOOSE i \in 1..Len(Alphabet) : Alphabet[i] = c

\* String.prototype.localeCompare: negative, zero or positive
RECURSIVE localeCompare(_, _)
localeCompare(a, b) ==
    IF a = <<>> /\ b = <<>> THEN 0
    ELSE IF a = <<>> THEN -1
    ELSE IF b = <<>> THEN 1
    ELSE IF CharRank(Head(a)) < CharRank(Head(b)) THEN -1
    ELSE IF CharRank(Head(a)) > CharRank(Head(b)) THEN 1
    ELSE localeCompare(Tail(a), Tail(b))

\* the status filter with its two cases exchanged
statusFilterSwapped(ts, filter) ==
    CASE filter = "active" -> SelectSeq(ts, LAMBDA task : task.completed)
      [] filter = "completed" -> SelectSeq(ts, LAMBDA task : ~task.completed)
      [] OTHER -> ts

\* the switch on this.filter
statusFilter(ts, filter) ==
    CASE filter = "active" -> SelectSeq(ts, LAMBDA task : ~task.completed)
      [] filter = "completed" -> SelectSeq(ts, LAMBDA task : task.completed)
      [] OTHER -> ts

\* the predicate of the search filter, query being lower-cased already
matchesQuery(task, query) ==
    \/ includes(toLowerCase(task.text), query)
    \/ includes(toLowerCase(task.description), query)
    \/ \E i \in 1..Len(task.tags) : includes(task.tags[i], query)

\* the search filter, skipped when the query is empty
searchFilter(ts, searchQuery) ==
    IF searchQuery = <<>> THEN ts
    ELSE SelectSeq(ts, LAMBDA task : matchesQuery(task, toLowerCase(searchQuery)))

\* the rank table without its default for unknown priorities
priorityOrderNoDefault(priority) ==
    CASE priority = "high" -> 3
      [] priority = "normal" -> 2
      [] priority = "low" -> 1
      [] OTHER -> 0

\* priorityOrder[priority] || 2
priorityOrder(priority) ==
    CASE priority = "high" -> 3
      [] priority = "normal" -> 2
      [] priority = "low" -> 1
      [] OTHER -> 2

\* the numeric sort value of a task
sortValue(task, sortBy) ==
    CASE sortBy = "priority" -> priorityOrder(task.priority)
      [] sortBy = "updatedAt" -> task.updatedAt
      [] OTHER -> task.createdAt

\* the comparator handed to sort
compare(a, b, sortBy, sortOrder) ==
    IF sortBy = "text"
    THEN IF sortOrder = "asc"
         THEN localeCompare(toLowerCase(a.text), toLowerCase(b.text))
         ELSE localeCompare(toLowerCase(b.text), toLowerCase(a.text))
    ELSE IF sortOrder = "asc"
         THEN sortValue(a, sortBy) - sortValue(b, sortBy)
         ELSE sortValue(b, sortBy) - sortValue(a, sortBy)

\* one task put into a sorted list, behind the tasks it does not precede
RECURSIVE insertSorted(_, _, _, _)
insertSorted(sorted, task, sortBy, sortOrder) ==
    IF sorted = <<>> THEN <<task>>
    ELSE IF compare(Head(sorted), task, sortBy, sortOrder) <= 0
         THEN <<Head(sorted)>> \o insertSorted(Tail(sorted), task, sortBy, sortOrder)
         ELSE <<task>> \o sorted

\* Array.prototype.sort, which is stable
RECURSIVE sort(_, _, _)
sort(ts, sortBy, sortOrder) ==
    IF ts = <<>> THEN <<>>
    ELSE insertSorted(sort(SubSeq(ts, 1, Len(ts) - 1), sortBy, sortOrder),
                      ts[Len(ts)], sortBy, sortOrder)

\* TaskManager.getFilteredTasks
getFilteredTasks(ts, v) ==
    sort(searchFilter(statusFilter(ts, v.filter), v.searchQuery),
         v.sortBy, v.sortOrder)

\* Task.isOverdue at the instant t
isOverdue(task, t) ==
    IF task.dueDate = NullTime \/ task.completed THEN FALSE
    ELSE task.dueDate # BadDate /\ task.dueDate < t

\* the rate cut off instead of rounded
completionRateFloor(completed, total) ==
    IF total > 0 THEN (100 * completed) \div total ELSE 0

\* total > 0 ? Math.round((completed / total) * 100) : 0
completionRate(completed, total) ==
    IF total > 0 THEN (200 * completed + total) \div (2 * total) ELSE 0

\* TaskManager.getStats at the instant t
getStats(ts, t) ==
    LET total == Len(ts)
        completed == Len(SelectSeq(ts, LAMBDA task : task.completed))
    IN [total |-> total,
        completed |-> completed,
        active |-> total - completed,
        overdue |-> Len(SelectSeq(ts, LAMBDA task : isOverdue(task, t))),
        completionRate |-> completionRate(completed, total)]

-----------------------------------------------------------------------------
(* The setters of a task, called on a task object of the collection that   *)
(* getTask or getAllTasks handed out: nothing is saved, nothing dispatched *)

\* tag.trim().toLowerCase()
tagStr(tag) == toLowerCase(Trim(tag))

\* Array.prototype.indexOf, 0 standing for -1
indexOf(tags, tag) ==
    IF \E i \in 1..Len(tags) : tags[i] = tag
    THEN CHOOSE i \in 1..Len(tags) :
            tags[i] = tag /\ \A j \in 1..(i - 1) : tags[j] # tag
    ELSE 0

\* what updateText returns
updateTextOk(newText) == Trim(newText) # <<>>

\* what setPriority returns
setPriorityOk(priority) == priority \in ValidPriorities

\* what addTag returns
addTagOk(task, tag) == tagStr(tag) # <<>> /\ indexOf(task.tags, tagStr(tag)) = 0

\* what removeTag returns
removeTagOk(task, tag) == indexOf(task.tags, tagStr(tag)) > 0

\* addTag stamping the task also when it refuses the tag
addTagStamping(task, tag, t) ==
    IF addTagOk(task, tag)
    THEN [task EXCEPT !.tags = Append(@, tagStr(tag)), !.updatedAt = t]
    ELSE [task EXCEPT !.updatedAt = t]

\* Task.addTag
addTag(task, tag, t) ==
    IF addTagOk(task, tag)
    THEN [task EXCEPT !.tags = Append(@, tagStr(tag)), !.updatedAt = t]
    ELSE task

\* Task.removeTag
removeTag(task, tag, t) ==
    IF removeTagOk(task, tag)
    THEN LET index == indexOf(task.tags, tagStr(tag))
         IN [task EXCEPT !.tags = SubSeq(@, 1, index - 1)
                                   \o SubSeq(@, index + 1, Len(@)),
                         !.updatedAt = t]
    ELSE task

\* a setter called on the task getTask(taskId) returns: the task becomes
\* after, the setter returns ok
CallSetter(op, taskId, arg, after, ok, t) ==
    /\ now' = t
    /\ UNCHANGED <<writable, importJob>>
    /\ UNCHANGED <<stored, nextGen, view>>
    /\ findIndex(tasks, taskId) # 0
    /\ tasks' = [tasks EXCEPT ![findIndex(tasks, taskId)] = after]
    /\ events' = <<>>
    /\ last' = Call(op, taskId, arg, NoError, <<ok>>,
                    <<tasks[findIndex(tasks, taskId)]>>)

\* getTask(taskId).updateText(newText)
CallUpdateText(taskId, newText, t) ==
    /\ findIndex(tasks, taskId) # 0
    /\ CallSetter("updateText", taskId, newText,
                  updateText(tasks[findIndex(tasks, taskId)], newText, t),
                  updateTextOk(newText), t)

\* getTask(taskId).setPriority(priority)
CallSetPriority(taskId, priority, t) ==
    /\ findIndex(tasks, taskId) # 0
    /\ CallSetter("setPriority", taskId, <<priority>>,
                  setPriority(tasks[findIndex(tasks, taskId)], priority, t),
                  setPriorityOk(priority), t)

\* getTask(taskId).addTag(tag)
CallAddTag(taskId, tag, t) ==
    /\ findIndex(tasks, taskId) # 0
    /\ CallSetter("addTag", taskId, tag,
                  addTag(tasks[findIndex(tasks, taskId)], tag, t),
                  addTagOk(tasks[findIndex(tasks, taskId)], tag), t)

\* getTask(taskId).removeTag(tag)
CallRemoveTag(taskId, tag, t) ==
    /\ findIndex(tasks, taskId) # 0
    /\ CallSetter("removeTag", taskId, tag,
                  removeTag(tasks[findIndex(tasks, taskId)], tag, t),
                  removeTagOk(tasks[findIndex(tasks, taskId)], tag), t)

\* what setDueDate returns
setDueDateOk(date) == date # BadDate

\* getTask(taskId).setDueDate(date)
CallSetDueDate(taskId, date, t) ==
    /\ findIndex(tasks, taskId) # 0
    /\ CallSetter("setDueDate", taskId, <<date>>,
                  setDueDate(tasks[findIndex(tasks, taskId)], date, t),
                  setDueDateOk(date), t)

-----------------------------------------------------------------------------
(* Import *)

\* the detail of tasksImported
ImportedEvent(count, merge, total) ==
    [type |-> "tasksImported", count |-> count, merge |-> merge, total |-> total]

\* merge mode with its filter left out: every imported task is appended
mergeAll(ts, imported) == imported

\* importedTasks.filter(t => !existingIds.has(t.id))
mergeNew(ts, imported) ==
    SelectSeq(imported, LAMBDA task : \A i \in 1..Len(ts) : ts[i].id # task.id)

\* a failed import that has already emptied the collection in replace mode
afterFailedImportCleared(ts, merge) == IF merge THEN ts ELSE <<>>

\* this.tasks when importTasks rethrows: nothing was assigned yet
afterFailedImport(ts, merge) == ts

\* the error importTasks throws, if any
importError(isArray, tasksData) ==
    IF ~isArray THEN ImportFormatError
    ELSE IF mapThrows(tasksData) THEN TypeErr
    ELSE NoError

\* TaskManager.importTasks; isArray is Array.isArray(tasksData)
importTasks(isArray, tasksData, merge, t) ==
    /\ now' = t
    /\ UNCHANGED writable
    /\ UNCHANGED view
    /\ IF importError(isArray, tasksData) # NoError
       THEN /\ tasks' = afterFailedImport(tasks, merge)
            /\ last' = Call("importTasks", NoId, <<>>,
                            importError(isArray, tasksData), <<>>, <<>>)
                        @@ [isArray |-> isArray, data |-> tasksData, merge |-> merge]
            /\ events' = <<>>
            /\ UNCHANGED <<stored, nextGen>>
       ELSE LET importedTasks == loadAll(tasksData, nextGen, t)
            IN /\ nextGen + countGen(tasksData) <= MaxGen
               /\ nextGen' = nextGen + countGen(tasksData)
               /\ tasks' = IF merge THEN tasks \o mergeNew(tasks, importedTasks)
                                     ELSE importedTasks
               /\ Len(tasks') <= MaxTasks
               /\ stored' = written(stored, tasks')
               /\ last' = Call("importTasks", NoId, <<>>, NoError, <<>>, <<>>)
                           @@ [isArray |-> isArray, data |-> tasksData, merge |-> merge]
               /\ events' = <<ImportedEvent(Len(importedTasks), merge, Len(tasks')),
                              Event("tasksChanged", NoCount)>>

\* importTasks called directly, no file import being involved
ImportTasks(isArray, tasksData, merge, t) ==
    /\ importTasks(isArray, tasksData, merge, t)
    /\ UNCHANGED importJob

\* StorageManager.validateImportData on the task list of the file
validateImportData(tasksData) ==
    \A i \in 1..Len(tasksData) :
        /\ "id" \in DOMAIN tasksData[i]
        /\ tasksData[i].id # NoId
        /\ "text" \in DOMAIN tasksData[i]

\* the file is read as JSON of the export format
Readable(file) == file.parses /\ validateImportData(file.tasks)

\* reader.onload going on to resolve after it has rejected
onloadCallsNoReturn(file) == IF file.parses /\ ~Readable(file) THEN 2 ELSE 1

\* how many times reader.onload calls resolve or reject
onloadCalls(file) == 1

\* the change listener of the file input: importData(file) is called, which
\* rejects at once for a file that is not JSON by type or name, and
\* otherwise starts the reader
ChooseFile(file) ==
    /\ importJob.phase \in {"idle", "rejected", "imported"}
    /\ importJob' = IF file.json
                    THEN [phase |-> "reading", file |-> file, settles |-> 0]
                    ELSE [phase |-> "rejected", file |-> file, settles |-> 1]
    /\ UNCHANGED <<tasks, stored, now, nextGen, last, events, view, writable>>

\* reader.onload: parse, validate, then resolve or reject
ReaderLoads ==
    /\ importJob.phase = "reading"
    /\ importJob' = [importJob EXCEPT
                       !.phase = IF Readable(importJob.file)
                                 THEN "resolved" ELSE "rejected",
                       !.settles = @ + onloadCalls(importJob.file)]
    /\ UNCHANGED <<tasks, stored, now, nextGen, last, events, view, writable>>

\* reader.onerror
ReaderFails ==
    /\ importJob.phase = "reading"
    /\ importJob' = [importJob EXCEPT !.phase = "rejected", !.settles = @ + 1]
    /\ UNCHANGED <<tasks, stored, now, nextGen, last, events, view, writable>>

\* the user answers the merge question and handleImportData goes on to
\* taskManager.importTasks(result.tasks, merge)
ConfirmImport(merge, t) ==
    /\ importJob.phase = "resolved"
    /\ importTasks(TRUE, importJob.file.tasks, merge, t)
    /\ importJob' = [importJob EXCEPT !.phase = "imported"]

\* the forEach of bulkDelete: removeTask per id, a throw skipping the id;
\* acc carries the collection, the removed tasks and the events so far
RECURSIVE bulkDeleteFrom(_, _)
bulkDeleteFrom(acc, taskIds) ==
    IF taskIds = <<>> THEN acc
    ELSE LET index == findIndex(acc.tasks, Head(taskIds))
         IN IF index = 0
            THEN bulkDeleteFrom(acc, Tail(taskIds))
            ELSE bulkDeleteFrom(
                    [tasks |-> SubSeq(acc.tasks, 1, index - 1)
                               \o SubSeq(acc.tasks, index + 1, Len(acc.tasks)),
                     deleted |-> Append(acc.deleted, acc.tasks[index]),
                     events |-> acc.events \o <<Event("taskRemoved", NoCount),
                                                Event("tasksChanged", NoCount)>>],
                    Tail(taskIds))

\* TaskManager.bulkDelete
BulkDelete(taskIds, t) ==
    /\ now' = t
    /\ UNCHANGED <<writable, importJob>>
    /\ UNCHANGED <<view, nextGen>>
    /\ LET done == bulkDeleteFrom([tasks |-> tasks, deleted |-> <<>>,
                                   events |-> <<>>], taskIds)
       IN /\ tasks' = done.tasks
          /\ stored' = IF done.deleted = <<>> THEN stored ELSE written(stored, tasks')
          /\ last' = Call("bulkDelete", NoId, <<>>, NoError, done.deleted, <<>>)
                      @@ [ids |-> taskIds]
          /\ events' = done.events

\* the forEach of bulkComplete: getTask per id, a throw skipping the id, and
\* toggleTask for a task that is not completed; acc carries the collection,
\* the indices of the tasks pushed to updatedTasks and the events so far
RECURSIVE bulkCompleteFrom(_, _, _)
bulkCompleteFrom(acc, taskIds, t) ==
    IF taskIds = <<>> THEN acc
    ELSE LET index == findIndex(acc.tasks, Head(taskIds))
         IN IF index = 0 \/ acc.tasks[index].completed
            THEN bulkCompleteFrom(acc, Tail(taskIds), t)
            ELSE bulkCompleteFrom(
                    [tasks |-> updated(acc.tasks, Head(taskIds),
                                       toggleUpdates(acc.tasks[index]), t),
                     pushed |-> Append(acc.pushed, index),
                     events |-> acc.events \o UpdateEvents],
                    Tail(taskIds), t)

\* TaskManager.bulkComplete; the returned list holds the task objects, which
\* show the state they are in when the call returns
BulkComplete(taskIds, t) ==
    /\ now' = t
    /\ UNCHANGED <<writable, importJob>>
    /\ UNCHANGED <<view, nextGen>>
    /\ LET done == bulkCompleteFrom([tasks |-> tasks, pushed |-> <<>>,
                                     events |-> <<>>], taskIds, t)
       IN /\ tasks' = done.tasks
          /\ stored' = IF done.pushed = <<>> THEN stored ELSE written(stored, tasks')
          /\ last' = Call("bulkComplete", NoId, <<>>, NoError,
                          [k \in 1..Len(done.pushed) |-> done.tasks[done.pushed[k]]],
                          <<>>)
                      @@ [ids |-> taskIds]
          /\ events' = done.events

-----------------------------------------------------------------------------
(* The manager under its single-task interface, callers passing any        *)
(* options and any update map; the calls follow one another within one     *)
(* clock instant.                                                          *)

Next ==
    \/ \E text \in Texts, options \in AddOptions :
          Len(tasks) < MaxApiTasks /\ AddTask(text, options, now)
    \/ \E taskId \in Ids : RemoveTask(taskId, now)
    \/ \E taskId \in Ids, updates \in UpdateMaps : UpdateTask(taskId, updates, now)
    \/ \E taskId \in Ids : ToggleTask(taskId, now)
    \/ ClearCompleted(now)
    \/ Reset(now)
    \/ Restart(now)

Spec == Init /\ [][Next]_vars

(* The manager driven with default options: addTask(text), removeTask,     *)
(* toggleTask, clearCompleted and reset, under a clock that advances.      *)

NextBasic ==
    \/ \E t \in Instants, text \in Texts : AddTask(text, NoOptions, t)
    \/ \E t \in Instants, taskId \in Ids : RemoveTask(taskId, t)
    \/ \E t \in Instants, taskId \in Ids : ToggleTask(taskId, t)
    \/ \E t \in Instants : ClearCompleted(t)
    \/ \E t \in Instants : Reset(t)

SpecBasic == Init /\ [][NextBasic]_vars

(* The manager constructed over whatever the store holds: nothing, a       *)
(* string that does not parse, well-formed records, records without text.  *)

GoodRecord == toJSON(Task(<<"a">>, [id |-> ExplicitId(1)], NoId, 1))

Snapshots ==
    { <<>>,
      Garbled,
      << GoodRecord >>,
      << [id |-> ExplicitId(1)] >>,
      << GoodRecord, [id |-> ExplicitId(2), completed |-> TRUE] >> }

InitLoad ==
    /\ view = DefaultView
    /\ writable = TRUE
    /\ importJob = NoJob
    /\ stored \in Snapshots
    /\ now = 1
    /\ nextGen = 0
    /\ tasks = loadedTasks(storageLoadTasks(stored), 0, 1)
    /\ events = loadedEvents(storageLoadTasks(stored))
    /\ last = Call("constructor", NoId, <<>>, NoError, <<>>, <<>>)

NextLoad ==
    \/ \E t \in Instants, text \in Texts : AddTask(text, NoOptions, t)
    \/ \E t \in Instants, taskId \in Ids : ToggleTask(taskId, t)
    \/ \E t \in Instants, taskId \in Ids : RemoveTask(taskId, t)
    \/ \E t \in Instants : Restart(t)

SpecLoad == InitLoad /\ [][NextLoad]_vars

(* The manager fed with import files, next to the calls of the page: an    *)
(* exported record whose id is taken, fresh records, a record without id,  *)
(* records without text, and a value that is not an array.                 *)

ImportDatas ==
    { <<>>,
      << [id |-> generateId(1), text |-> <<"b">>] >>,
      << [id |-> ExplicitId(1), text |-> <<"a">>, completed |-> TRUE] >>,
      << [text |-> <<"a">>] >>,
      << [id |-> ExplicitId(1)] >>,
      << [id |-> ExplicitId(2), text |-> <<"a">>], [id |-> ExplicitId(1)] >> }

\* what the edit dialog of the page sends
EditMaps ==
    { << [text |-> <<Space>>], [priority |-> "high"], [description |-> <<>>] >>,
      << [text |-> <<"a", Space>>], [priority |-> "high"], [description |-> <<>>] >> }

NextImport ==
    \/ \E text \in Texts :
          Len(tasks) < MaxApiTasks /\ AddTask(text, NoOptions, now)
    \/ \E taskId \in Ids : RemoveTask(taskId, now)
    \/ \E taskId \in Ids, updates \in EditMaps : UpdateTask(taskId, updates, now)
    \/ ClearCompleted(now)
    \/ Reset(now)
    \/ \E tasksData \in ImportDatas, merge \in BOOLEAN :
          ImportTasks(TRUE, tasksData, merge, now) /\ Len(tasks') <= MaxApiTasks
    \/ \E merge \in BOOLEAN : ImportTasks(FALSE, <<>>, merge, now)

SpecImport == Init /\ [][NextImport]_vars

(* The manager under bulk deletion and bulk completion, tasks being added  *)
(* with the options a caller may pass, an id of the caller's choice among  *)
(* them.                                                                   *)

\* the id lists callers pass: one id, two ids, a repeated id, a missing id
BulkIds ==
    { <<>>,
      << ExplicitId(1) >>,
      << generateId(1), ExplicitId(1) >>,
      << generateId(2), generateId(2) >>,
      << ExplicitId(1), ExplicitId(2) >> }

NextBulk ==
    \/ \E t \in Instants, text \in Texts, options \in AddOptions :
          Len(tasks) < MaxApiTasks /\ AddTask(text, options, t)
    \/ \E t \in Instants, taskIds \in BulkIds : BulkDelete(taskIds, t)
    \/ \E t \in Instants, taskIds \in BulkIds : BulkComplete(taskIds, t)

SpecBulk == Init /\ [][NextBulk]_vars

(* The manager under the view controls of the page: tasks are added and   *)
(* toggled, while filter, search and sorting are set to legal and to       *)
(* illegal values.                                                         *)

BuyMilk == <<"B", "u", "y", Space, "m", "i", "l", "k">>
CallDentist == <<"C", "a", "l", "l", Space, "d", "e", "n", "t", "i", "s", "t">>

ViewTexts == {BuyMilk, CallDentist}

FilterInputs == ValidFilters \cup {"archived"}

QueryInputs == { <<>>, <<Space>>, <<"m", "i">>, <<Space, "C", "a", "l", "l">> }

SortByInputs == ValidSortBy \cup {"size"}

SortOrderInputs == ValidSortOrder \cup {"sideways", Undefined}

NextView ==
    \/ \E text \in ViewTexts : Len(tasks) < MaxApiTasks /\ AddTask(text, NoOptions, now)
    \/ \E taskId \in Ids : ToggleTask(taskId, now)
    \/ \E filter \in FilterInputs : SetFilter(filter, now)
    \/ \E query \in QueryInputs : SetSearchQuery(query, now)
    \/ \E sortBy \in SortByInputs, sortOrder \in SortOrderInputs :
          SetSorting(sortBy, sortOrder, now)

SpecView == Init /\ [][NextView]_vars

(* The manager with tasks of every priority, known or not, the list being  *)
(* re-sorted and filtered between the calls.                               *)

\* the addTask calls: a text and its options
PriorityAdds ==
    { <<BuyMilk, NoOptions>>,
      <<CallDentist, [priority |-> "high"]>>,
      <<BuyMilk, [priority |-> "low"]>>,
      <<CallDentist, [priority |-> "urgent"]>> }

NextSort ==
    \/ \E add \in PriorityAdds :
          Len(tasks) < MaxApiTasks /\ AddTask(add[1], add[2], now)
    \/ \E taskId \in Ids : ToggleTask(taskId, now)
    \/ \E filter \in ValidFilters : SetFilter(filter, now)
    \/ \E sortBy \in {"priority", "text"}, sortOrder \in ValidSortOrder :
          SetSorting(sortBy, sortOrder, now)

SpecSort == Init /\ [][NextSort]_vars

(* The manager over a store that may have reached its quota before the     *)
(* page was opened: what an earlier session left can be read, and          *)
(* setItem throws on every write.                                          *)

InitQuota ==
    /\ view = DefaultView
    /\ writable \in BOOLEAN
    /\ importJob = NoJob
    /\ stored \in { <<>>, << GoodRecord >> }
    /\ now = 1
    /\ nextGen = 0
    /\ tasks = loadedTasks(storageLoadTasks(stored), 0, 1)
    /\ events = loadedEvents(storageLoadTasks(stored))
    /\ last = Call("constructor", NoId, <<>>, NoError, <<>>, <<>>)

\* the import files tried on the full store: one good record, one without text
QuotaImports ==
    { << [id |-> ExplicitId(1), text |-> <<"a">>, completed |-> TRUE] >>,
      << [id |-> ExplicitId(1)] >> }

\* the edit tried on the full store
QuotaEdit == << [priority |-> "high"] >>

NextQuota ==
    \/ \E text \in {<<>>, <<"a">>} :
          Len(tasks) < MaxApiTasks /\ AddTask(text, NoOptions, now)
    \/ \E taskId \in Ids : RemoveTask(taskId, now)
    \/ \E taskId \in Ids : UpdateTask(taskId, QuotaEdit, now)
    \/ \E taskId \in Ids : ToggleTask(taskId, now)
    \/ ClearCompleted(now)
    \/ Reset(now)
    \/ \E tasksData \in QuotaImports :
          ImportTasks(TRUE, tasksData, FALSE, now) /\ Len(tasks') <= MaxApiTasks

SpecQuota == InitQuota /\ [][NextQuota]_vars

(* The page importing files while the user goes on adding, toggling and   *)
(* removing tasks: a file of another type, a file that does not parse, a   *)
(* file with a record that has no id, and a well-formed export.            *)

ImportFiles ==
    { [json |-> FALSE, parses |-> TRUE, tasks |-> <<>>],
      [json |-> TRUE, parses |-> FALSE, tasks |-> <<>>],
      [json |-> TRUE, parses |-> TRUE, tasks |-> << [text |-> <<"a">>] >>],
      [json |-> TRUE, parses |-> TRUE,
       tasks |-> << [id |-> generateId(1), text |-> <<"b">>],
                    [id |-> ExplicitId(1), text |-> <<"a">>] >>] }

NextFile ==
    \/ \E file \in ImportFiles : ChooseFile(file)
    \/ ReaderLoads
    \/ ReaderFails
    \/ \E merge \in BOOLEAN : ConfirmImport(merge, now) /\ Len(tasks') <= MaxTasks
    \/ Len(tasks) < MaxApiTasks /\ AddTask(<<"a">>, NoOptions, now)
    \/ \E taskId \in Ids : ToggleTask(taskId, now)
    \/ \E taskId \in Ids : RemoveTask(taskId, now)

\* a FileReader that was started delivers load or error
SpecFile == Init /\ [][NextFile]_vars /\ WF_vars(ReaderLoads \/ ReaderFails)

(* The manager across page reloads: tasks are added, edited, toggled and  *)
(* handled in bulk, and the page is reloaded over what was stored.         *)

\* the edits made between reloads: a priority, and a category set to ""
PersistEdits == { << [priority |-> "high"] >>, << [category |-> ""] >> }

NextPersist ==
    \/ Len(tasks) < MaxApiTasks /\ AddTask(<<"a">>, NoOptions, now)
    \/ \E taskId \in Ids, updates \in PersistEdits : UpdateTask(taskId, updates, now)
    \/ \E taskId \in Ids : ToggleTask(taskId, now)
    \/ \E taskIds \in BulkIds : BulkDelete(taskIds, now)
    \/ \E taskIds \in BulkIds : BulkComplete(taskIds, now)
    \/ Restart(now)

SpecPersist == Init /\ [][NextPersist]_vars

(* A caller working on the one task object of the collection, under a      *)
(* clock that advances: its text, priority and tags are set, with legal    *)
(* and illegal arguments.                                                  *)

\* the tags callers pass: empty, blank, plain, padded, in capitals
TagInputs == { <<>>, <<Space>>, <<"a">>, <<Space, "A">>, <<"b">> }

PriorityInputs == {"high", "low", "urgent"}

NextSetters ==
    \/ \E t \in Instants :
          tasks = <<>> /\ AddTask(<<"a">>, NoOptions, t)
    \/ \E t \in Instants, taskId \in Ids, newText \in Texts :
          CallUpdateText(taskId, newText, t)
    \/ \E t \in Instants, taskId \in Ids, priority \in PriorityInputs :
          CallSetPriority(taskId, priority, t)
    \/ \E t \in Instants, taskId \in Ids, tag \in TagInputs :
          CallAddTag(taskId, tag, t)
    \/ \E t \in Instants, taskId \in Ids, tag \in TagInputs :
          CallRemoveTag(taskId, tag, t)

SpecSetters == Init /\ [][NextSetters]_vars

(* Tasks created with and without a timestamp of their own, then changed   *)
(* by every operation that stamps a task, under a clock that advances.     *)

\* the task is new, or carries the updatedAt of a record written where the
\* clock was ahead
StampOptions == { NoOptions, [updatedAt |-> MaxClock] }

\* a direct field assignment and a delegated one
StampEdits == { << [category |-> ""] >>, << [priority |-> "high"] >> }

DueDates == { BadDate, NullTime, 1 }

NextStamps ==
    \/ \E t \in Instants, options \in StampOptions :
          tasks = <<>> /\ AddTask(<<"a">>, options, t)
    \/ \E t \in Instants, taskId \in Ids : ToggleTask(taskId, t)
    \/ \E t \in Instants, taskId \in Ids, updates \in StampEdits :
          UpdateTask(taskId, updates, t)
    \/ \E t \in Instants, taskId \in Ids : CallUpdateText(taskId, <<"a">>, t)
    \/ \E t \in Instants, taskId \in Ids : CallSetPriority(taskId, "low", t)
    \/ \E t \in Instants, taskId \in Ids : CallAddTag(taskId, <<"a">>, t)
    \/ \E t \in Instants, taskId \in Ids : CallRemoveTag(taskId, <<"a">>, t)
    \/ \E t \in Instants, taskId \in Ids, date \in DueDates :
          CallSetDueDate(taskId, date, t)

SpecStamps == Init /\ [][NextStamps]_vars

(* Every way a tag gets into a task: the tags option of addTask, the tags  *)
(* of an imported record, a tags field given to updateTask, and addTag and *)
(* removeTag on the task itself.                                           *)

\* the tag lists callers and files supply
TagLists == { <<<<"A">>>>, <<<<"a">>, <<"a">>>> }

TagOptions == {NoOptions} \cup { [tags |-> l] : l \in TagLists }

TagEdits == { << [tags |-> l] >> : l \in TagLists }

TagImports ==
    { << [id |-> ExplicitId(1), text |-> <<"a">>, tags |-> l] >> : l \in TagLists }

NextTags ==
    \/ \E options \in TagOptions :
          tasks = <<>> /\ AddTask(<<"a">>, options, now)
    \/ \E taskId \in Ids, updates \in TagEdits : UpdateTask(taskId, updates, now)
    \/ \E taskId \in Ids, tag \in TagInputs : CallAddTag(taskId, tag, now)
    \/ \E taskId \in Ids, tag \in TagInputs : CallRemoveTag(taskId, tag, now)
    \/ \E tasksData \in TagImports, merge \in BOOLEAN :
          ImportTasks(TRUE, tasksData, merge, now) /\ Len(tasks') <= MaxApiTasks

SpecTags == Init /\ [][NextTags]_vars

-----------------------------------------------------------------------------
(* Properties *)

\* the error kinds of the design: which thrown errors count as which
IsValidationError(err) == err = EmptyTextError
IsNotFoundError(err) == err = NotFoundErr

HasId(ts, taskId) == \E i \in 1..Len(ts) : ts[i].id = taskId

\* C1: for a text with a non-empty trim, addTask(text) with no options
\* returns a task whose text is the trimmed input and whose completed is
\* false, the collection grows by exactly one, and the returned task is the
\* first element of getAllTasks().
C1_AddTaskPrepends ==
    [][ (last'.op = "addTask" /\ Trim(last'.text) # <<>>) =>
            /\ last'.err = NoError
            /\ Len(last'.ret) = 1
            /\ last'.ret[1].text = Trim(last'.text)
            /\ last'.ret[1].completed = FALSE
            /\ Len(tasks') = Len(tasks) + 1
            /\ getAllTasks(tasks')[1] = last'.ret[1] ]_vars

C1_Witness ==
    /\ last.op = "addTask"
    /\ last.err = NoError
    /\ last.text = <<Space, "a", Space>>
    /\ Len(tasks) >= 2
    /\ tasks[1] = last.ret[1]

\* C2: addTask with an empty or whitespace-only text fails with a
\* ValidationError raised to the caller and changes nothing: same tasks,
\* nothing persisted, no event emitted.
C2_BlankTextRejected ==
    [][ (last'.op = "addTask" /\ Trim(last'.text) = <<>>) =>
            /\ IsValidationError(last'.err)
            /\ last'.ret = <<>>
            /\ tasks' = tasks
            /\ stored' = stored
            /\ events' = <<>> ]_vars

C2_Witness ==
    /\ last.op = "addTask"
    /\ last.text = <<Space>>
    /\ IsValidationError(last.err)
    /\ Len(tasks) >= 1

\* C3: removeTask(id) with an id no task of the collection has fails with a
\* NotFoundError raised to the caller and leaves the collection unchanged.
C3_RemoveMissingRejected ==
    [][ (last'.op = "removeTask" /\ ~HasId(tasks, last'.id)) =>
            /\ IsNotFoundError(last'.err)
            /\ last'.ret = <<>>
            /\ tasks' = tasks
            /\ stored' = stored
            /\ events' = <<>> ]_vars

C3_Witness ==
    /\ last.op = "removeTask"
    /\ IsNotFoundError(last.err)
    /\ Len(tasks) >= 2
    /\ ~HasId(tasks, last.id)

\* C4: in every reachable state every task of the collection has
\* completedAt non-null if and only if completed is true.
C4_CompletedAtIffCompleted ==
    \A i \in 1..Len(tasks) :
        (tasks[i].completedAt # NullTime) <=> tasks[i].completed

\* C5: in every reachable state no two tasks of the collection have the
\* same id.
C5_IdsUnique ==
    \A i, j \in 1..Len(tasks) : tasks[i].id = tasks[j].id => i = j

\* C6: no manager operation on an existing task (updateTask with any update
\* map, toggleTask) leaves that task with an id other than the one it had.
C6_IdImmutable ==
    [][ (last'.op \in {"updateTask", "toggleTask"} /\ last'.err = NoError) =>
            /\ Len(tasks') = Len(tasks)
            /\ \A i \in 1..Len(tasks) : tasks'[i].id = tasks[i].id ]_vars

\* C7: every task of the collection has a non-empty trimmed text.
C7_TextNeverEmpty ==
    \A i \in 1..Len(tasks) :
        /\ tasks[i].text # <<>>
        /\ tasks[i].text = Trim(tasks[i].text)

\* C8: toggleTask(id) flips completed, and a second toggleTask(id) right
\* after it returns the task to its original completed value and its original
\* completedAt state (null or not), updatedAt never going backwards.
C8_DoubleToggleRestores ==
    [][ (/\ last.op = "toggleTask" /\ last.err = NoError
         /\ last'.op = "toggleTask" /\ last'.err = NoError
         /\ last'.id = last.id) =>
            LET original == last.old[1]
                once == last.ret[1]
                twice == last'.ret[1]
            IN /\ once.completed = ~original.completed
               /\ twice.completed = original.completed
               /\ (twice.completedAt = NullTime) <=> (original.completedAt = NullTime)
               /\ original.updatedAt <= once.updatedAt
               /\ once.updatedAt <= twice.updatedAt ]_vars

\* C9: for every task of the collection, Task.fromJSON(task.toJSON()) has
\* the same value in every field.
C9_JsonRoundTrip ==
    \A i \in 1..Len(tasks) :
        \A t \in 1..MaxClock, n \in 1..MaxGen :
            fromJSON(toJSON(tasks[i]), generateId(n), t) = tasks[i]

\* C10: clearCompleted() removes exactly the tasks whose completed was true
\* at call time, returns exactly those tasks, and leaves every other task
\* unmodified and in its original relative order.
C10_ClearCompletedExact ==
    [][ last'.op = "clearCompleted" =>
            LET kept == {i \in 1..Len(tasks) : ~tasks[i].completed}
                gone == {i \in 1..Len(tasks) : tasks[i].completed}
            IN /\ last'.err = NoError
               /\ Len(tasks') = Cardinality(kept)
               /\ Len(last'.ret) = Cardinality(gone)
               /\ \E pos \in [kept -> 1..Len(tasks')] :
                     /\ \A i \in kept : tasks'[pos[i]] = tasks[i]
                     /\ \A i, j \in kept : i < j => pos[i] < pos[j]
               /\ \E pos \in [gone -> 1..Len(last'.ret)] :
                     /\ \A i \in gone : last'.ret[pos[i]] = tasks[i]
                     /\ \A i, j \in gone : i # j => pos[i] # pos[j] ]_vars

C10_Witness ==
    /\ last.op = "clearCompleted"
    /\ Len(last.ret) >= 1
    /\ Len(tasks) >= 2
    /\ tasks[1].createdAt > tasks[2].createdAt


\* whether the load the constructor ran over this store failed: the store
\* did not parse, or a record of it has no text
LoadFails(snapshot) == snapshot = Garbled \/ mapThrows(storageLoadTasks(snapshot))

\* C14: when loadTasks fails for any reason the manager ends with an empty
\* collection, nothing is thrown, and tasksLoaded (count 0) followed by
\* tasksChanged is still emitted.
C14_FailedLoadStillAnnounces ==
    (last.op = "constructor" /\ LoadFails(stored)) =>
        /\ tasks = <<>>
        /\ last.err = NoError
        /\ events = <<Event("tasksLoaded", 0), Event("tasksChanged", NoCount)>>

\* the types of the events of the last call, in order
EventTypes(evs) == [i \in 1..Len(evs) |-> evs[i].type]

\* C11: importTasks(data, merge=true) keeps every task that was in the
\* collection, with the same field values and in the same order, at the
\* front of the collection, and none of the tasks it adds behind them has
\* an id that was already there.
C11_MergeKeepsExisting ==
    [][(last'.op = "importTasks" /\ last'.err = NoError /\ last'.merge) =>
          /\ Len(tasks') >= Len(tasks)
          /\ SubSeq(tasks', 1, Len(tasks)) = tasks
          /\ \A j \in (Len(tasks) + 1)..Len(tasks') : ~HasId(tasks, tasks'[j].id)]_vars

\* a merge import of a record whose id is taken by a task of another text
C11_Witness ==
    /\ last.op = "importTasks"
    /\ last.err = NoError
    /\ last.merge
    /\ \E i \in 1..Len(tasks), j \in 1..Len(last.data) :
          /\ "id" \in DOMAIN last.data[j]
          /\ tasks[i].id = last.data[j].id
          /\ tasks[i].text # last.data[j].text
    /\ events[1].count = 1
    /\ events[1].total = Len(tasks)

\* the event each mutating operation announces itself with
SpecificEvent(op) ==
    CASE op = "addTask" -> "taskAdded"
      [] op = "removeTask" -> "taskRemoved"
      [] op = "updateTask" -> "taskUpdated"
      [] op = "clearCompleted" -> "completedCleared"
      [] op = "reset" -> "tasksReset"
      [] op = "importTasks" -> "tasksImported"

MutatingOps ==
    {"addTask", "removeTask", "updateTask", "clearCompleted", "reset", "importTasks"}

\* C13: a successful addTask, removeTask, updateTask, clearCompleted, reset
\* or importTasks emits exactly two events: its own specific event, then
\* tasksChanged; a failed one emits no tasksChanged.
C13_SpecificThenChanged ==
    (last.op \in MutatingOps) =>
        IF last.err = NoError
        THEN EventTypes(events) = <<SpecificEvent(last.op), "tasksChanged">>
        ELSE \A i \in 1..Len(events) : events[i].type # "tasksChanged"

\* a successful edit through updateTask has announced itself
C13_Witness ==
    /\ last.op = "updateTask"
    /\ last.err = NoError
    /\ EventTypes(events) = <<"taskUpdated", "tasksChanged">>

\* the import data of the last call cannot be taken in
BadImport(call) ==
    \/ ~call.isArray
    \/ \E i \in 1..Len(call.data) : "text" \notin DOMAIN call.data[i]

\* C20: importTasks on a value that is not an array, or on an array with an
\* element that has no text, throws, in merge and in replace mode alike, and
\* leaves the collection and the stored snapshot as they were, with no
\* event emitted.
C20_FailedImportChangesNothing ==
    [][(last'.op = "importTasks" /\ BadImport(last')) =>
          /\ last'.err # NoError
          /\ tasks' = tasks
          /\ stored' = stored
          /\ events' = <<>>]_vars

\* a replace import of a good record followed by one without text has
\* failed over a collection that holds a task
C20_Witness ==
    /\ last.op = "importTasks"
    /\ ~last.merge
    /\ last.isArray
    /\ Len(last.data) = 2
    /\ last.err = TypeErr
    /\ tasks # <<>>

\* the id occurs in the list
Named(taskIds, taskId) == \E k \in 1..Len(taskIds) : taskIds[k] = taskId

\* the tasks of ts whose id is (keep = FALSE: is not) in the list, in order
Pick(ts, taskIds, keep) ==
    SelectSeq(ts, LAMBDA task : Named(taskIds, task.id) = keep)

\* C12: bulkDelete(ids) does not throw; afterwards the collection is the
\* old one without the tasks whose id is in ids, the others in their old
\* order, and the returned list holds exactly the tasks taken out.
C12_BulkDeleteExact ==
    [][(last'.op = "bulkDelete") =>
          /\ last'.err = NoError
          /\ tasks' = Pick(tasks, last'.ids, FALSE)
          /\ Len(last'.ret) = Len(Pick(tasks, last'.ids, TRUE))
          /\ \A i \in 1..Len(tasks) :
                Named(last'.ids, tasks[i].id) =>
                    \E k \in 1..Len(last'.ret) : last'.ret[k] = tasks[i]]_vars

ViewOps == {"setFilter", "setSearchQuery", "setSorting"}

\* every argument of the call is outside the legal values (a sortOrder
\* that is left out counts as "desc")
AllArgumentsIllegal(call) ==
    \/ call.op = "setFilter" /\ call.filter \notin ValidFilters
    \/ /\ call.op = "setSorting"
       /\ call.sortBy \notin ValidSortBy
       /\ OrDesc(call.sortOrder) \notin ValidSortOrder

\* C15: a setFilter or setSorting call whose arguments are all outside the
\* legal values changes no manager state and emits no event.
C15_IllegalArgumentsIgnored ==
    [][(last'.op \in {"setFilter", "setSorting"} /\ AllArgumentsIllegal(last')) =>
          /\ view' = view
          /\ tasks' = tasks
          /\ stored' = stored
          /\ events' = <<>>]_vars

\* the event a view operation announces itself with
ViewEvent(op) ==
    CASE op = "setFilter" -> "filterChanged"
      [] op = "setSearchQuery" -> "searchChanged"
      [] op = "setSorting" -> "sortingChanged"

\* C16: setFilter, setSearchQuery and setSorting leave the collection and
\* the stored snapshot as they were and emit at most one event, their own,
\* never tasksChanged.
C16_ViewOperationsOnlyTouchView ==
    [][(last'.op \in ViewOps) =>
          /\ tasks' = tasks
          /\ stored' = stored
          /\ Len(events') <= 1
          /\ \A i \in 1..Len(events') : events'[i].type = ViewEvent(last'.op)]_vars

\* a search has been set over a collection that holds a task
C16_Witness ==
    /\ last.op = "setSearchQuery"
    /\ view.searchQuery # <<>>
    /\ tasks # <<>>
    /\ stored = saveTasks(tasks)
    /\ EventTypes(events) = <<"searchChanged">>

\* the task is in the list
In(ts, task) == \E k \in 1..Len(ts) : ts[k] = task

\* the task passes the search of the view
PassesSearch(task, v) ==
    v.searchQuery = <<>> \/ matchesQuery(task, toLowerCase(v.searchQuery))

\* C17: getFilteredTasks() under filter=active returns no completed task
\* and every task that is not completed and passes the search; under
\* filter=completed it returns no task that is not completed; under
\* filter=all it returns every task that passes the search.
C17_StatusFilterExact ==
    LET shown == getFilteredTasks(tasks, view)
    IN /\ view.filter = "active" =>
             /\ \A k \in 1..Len(shown) : ~shown[k].completed
             /\ \A i \in 1..Len(tasks) :
                   (~tasks[i].completed /\ PassesSearch(tasks[i], view))
                       => In(shown, tasks[i])
       /\ view.filter = "completed" =>
             \A k \in 1..Len(shown) : shown[k].completed
       /\ view.filter = "all" =>
             \A i \in 1..Len(tasks) :
                   PassesSearch(tasks[i], view) => In(shown, tasks[i])

\* under filter=active and a search, a completed task is held back and a
\* task that is not completed is shown
C17_Witness ==
    /\ view.filter = "active"
    /\ view.searchQuery # <<>>
    /\ \E i \in 1..Len(tasks) : tasks[i].completed
    /\ Len(getFilteredTasks(tasks, view)) = 1
    /\ ~getFilteredTasks(tasks, view)[1].completed

\* the number of completed tasks
CompletedCount(ts) == Cardinality({i \in 1..Len(ts) : ts[i].completed})

\* r is 100 * c / n rounded to the nearest whole number, halves going up
IsRounded(r, c, n) == 2 * n * r - 200 * c <= n /\ 200 * c - 2 * n * r < n

Rank(priority) ==
    IF priority = "high" THEN 3 ELSE IF priority = "low" THEN 1 ELSE 2

\* how often the task occurs in the list
Count(ts, task) == Cardinality({k \in 1..Len(ts) : ts[k] = task})

\* the tasks that pass the status filter and the search of the view
Passing(ts, v) == SelectSeq(ts, LAMBDA task :
    /\ v.filter = "active" => ~task.completed
    /\ v.filter = "completed" => task.completed
    /\ PassesSearch(task, v))

\* the collection after addTask("Buy milk") and
\* addTask("Call dentist", {priority: "high"}) on an empty manager
IsExample(ts) ==
    /\ Len(ts) = 2
    /\ ts[1].text = CallDentist /\ ts[1].priority = "high" /\ ~ts[1].completed
    /\ ts[2].text = BuyMilk /\ ts[2].priority = "normal" /\ ~ts[2].completed

NormalOutcome(before, after, call, evs) ==
    CASE call.op = "addTask" ->
            IF Trim(call.text) = <<>>
            THEN call.err = EmptyTextError /\ after = before /\ evs = <<>>
            ELSE /\ call.err = NoError
                 /\ after = call.ret \o before
                 /\ EventTypes(evs) = <<"taskAdded", "tasksChanged">>
      [] call.op = "removeTask" ->
            IF ~HasId(before, call.id)
            THEN call.err = NotFoundErr /\ after = before /\ evs = <<>>
            ELSE /\ call.err = NoError
                 /\ Len(after) = Len(before) - 1
                 /\ \E i \in 1..Len(before) : call.ret = <<before[i]>>
                 /\ EventTypes(evs) = <<"taskRemoved", "tasksChanged">>
      [] call.op = "updateTask" ->
            IF ~HasId(before, call.id)
            THEN call.err = NotFoundErr /\ after = before /\ evs = <<>>
            ELSE /\ call.err = NoError
                 /\ \E i \in 1..Len(after) : call.ret = <<after[i]>>
                 /\ EventTypes(evs) = <<"taskUpdated", "tasksChanged">>
      [] call.op = "toggleTask" ->
            IF ~HasId(before, call.id)
            THEN call.err = NotFoundErr /\ after = before /\ evs = <<>>
            ELSE /\ call.err = NoError
                 /\ \E i \in 1..Len(before) :
                       /\ before[i].id = call.id
                       /\ after[i].completed = ~before[i].completed
                 /\ EventTypes(evs) = <<"taskUpdated", "tasksChanged">>
      [] call.op = "clearCompleted" ->
            /\ call.err = NoError
            /\ after = SelectSeq(before, LAMBDA task : ~task.completed)
            /\ call.ret = SelectSeq(before, LAMBDA task : task.completed)
            /\ EventTypes(evs) = <<"completedCleared", "tasksChanged">>
      [] call.op = "reset" ->
            /\ call.err = NoError
            /\ after = <<>>
            /\ EventTypes(evs) = <<"tasksReset", "tasksChanged">>
      [] call.op = "importTasks" ->
            IF BadImport(call)
            THEN call.err # NoError /\ after = before /\ evs = <<>>
            ELSE /\ call.err = NoError
                 /\ Len(after) = IF call.merge THEN evs[1].total ELSE Len(call.data)
                 /\ call.merge => SubSeq(after, 1, Len(before)) = before
                 /\ EventTypes(evs) = <<"tasksImported", "tasksChanged">>

\* C21: while the store refuses writes, addTask, removeTask, updateTask,
\* toggleTask, clearCompleted, reset and importTasks change the collection,
\* emit their events and return as they do otherwise, raising nothing but
\* their own validation errors; only the stored snapshot stays as it was.
C21_WriteFailureNotEscalated ==
    [][(~writable /\ last'.op \in MutatingOps \cup {"toggleTask"}) =>
          /\ NormalOutcome(tasks, tasks', last', events')
          /\ stored' = stored]_vars

\* a task was added while the store refused the write
C21_Witness ==
    /\ ~writable
    /\ last.op = "addTask"
    /\ last.err = NoError
    /\ Len(tasks) = 2
    /\ stored = << GoodRecord >>
    /\ EventTypes(events) = <<"taskAdded", "tasksChanged">>

Settled == {"resolved", "rejected", "imported"}

\* the step belongs to the file import and comes before its importTasks
ImportStepBeforeCall == importJob' # importJob /\ importJob'.phase # "imported"

\* C22: a file import settles exactly once: a read that was started is
\* followed by one resolve or one reject, never both and never two of one;
\* the steps of the import before its importTasks call leave collection
\* and stored snapshot alone and emit nothing; importTasks is only ever
\* reached from a resolved import, so an import that rejects changes
\* nothing, whatever the user does in between.
C22_FileImportSettlesOnce ==
    /\ [](importJob.phase = "reading" => importJob.settles = 0)
    /\ [](importJob.phase \in Settled => importJob.settles = 1)
    /\ (importJob.phase = "reading") ~> (importJob.phase \in Settled)
    /\ [][ImportStepBeforeCall =>
            /\ tasks' = tasks
            /\ stored' = stored
            /\ events' = events
            /\ last' = last]_vars
    /\ [][(importJob' # importJob /\ importJob'.phase = "imported") =>
            importJob.phase = "resolved" /\ last'.op = "importTasks"]_vars

\* a file was rejected by the reader while the collection held a task the
\* user added in between
C22_Witness ==
    /\ importJob.phase = "rejected"
    /\ importJob.file.json
    /\ importJob.settles = 1
    /\ tasks # <<>>
    /\ last.op = "addTask"

\* C24: bulkComplete(ids) does not throw; afterwards every task named in
\* ids is completed, a task that was completed already or is not named is
\* as it was, and the returned list holds exactly the tasks that went from
\* not completed to completed, each once.
C24_BulkCompleteExact ==
    [][(last'.op = "bulkComplete") =>
          /\ last'.err = NoError
          /\ Len(tasks') = Len(tasks)
          /\ \A i \in 1..Len(tasks) :
                /\ Named(last'.ids, tasks[i].id) => tasks'[i].completed
                /\ (tasks[i].completed \/ ~Named(last'.ids, tasks[i].id))
                      => tasks'[i] = tasks[i]
                /\ (~tasks[i].completed /\ tasks'[i].completed)
                      => Count(last'.ret, tasks'[i]) = 1
          /\ Len(last'.ret) =
                Cardinality({i \in 1..Len(tasks) :
                                ~tasks[i].completed /\ tasks'[i].completed})]_vars

\* the operations that change the collection
SavingOps ==
    MutatingOps \cup {"toggleTask", "bulkComplete", "bulkDelete"}

\* C23: while storage writes succeed, after every successful addTask,
\* removeTask, updateTask, toggleTask, bulkComplete, bulkDelete,
\* clearCompleted, reset or importTasks the task list the storage adapter
\* holds is the serialization, task by task and in order, of the
\* collection in memory.
C23_StoredMirrorsCollection ==
    (writable /\ last.op \in SavingOps /\ last.err = NoError) =>
        storageLoadTasks(stored) = saveTasks(tasks)

\* C28: when the stored snapshot is the serialization of the collection
\* (the last persist succeeded), a manager constructed over it ends
\* loadTasks with the same tasks, in the same order and with the same
\* field values.
C28_RestartPreservesCollection ==
    [][(last'.op = "constructor" /\ writable /\ stored = saveTasks(tasks)) =>
          tasks' = tasks]_vars

SetterOps == {"updateText", "setPriority", "addTag", "removeTag"}

\* the tag as the task keeps it
NormalTag(tag) == toLowerCase(Trim(tag))

\* the task shows the effect of the setter on the argument
SetterApplied(op, arg, before, task) ==
    CASE op = "updateText" -> task.text = Trim(arg)
      [] op = "setPriority" -> task.priority = arg[1]
      [] op = "addTag" -> task.tags = Append(before.tags, NormalTag(arg))
      [] op = "removeTag" ->
            \E k \in 1..Len(before.tags) :
               /\ before.tags[k] = NormalTag(arg)
               /\ task.tags = SubSeq(before.tags, 1, k - 1)
                                \o SubSeq(before.tags, k + 1, Len(before.tags))

\* C25: a call of updateText, setPriority, addTag or removeTag that returns
\* false leaves every field of the task, updatedAt included, as it was; one
\* that returns true leaves the new, normalized value in the field it
\* targets and updatedAt at the current time.
C25_FailedSetterIsNoOp ==
    [][(last'.op \in SetterOps) =>
          \E i \in 1..Len(tasks) :
             /\ tasks[i] = last'.old[1]
             /\ \A j \in 1..Len(tasks) : j # i => tasks'[j] = tasks[j]
             /\ IF last'.ret = <<FALSE>>
                THEN tasks'[i] = tasks[i]
                ELSE /\ SetterApplied(last'.op, last'.text, tasks[i], tasks'[i])
                     /\ tasks'[i].updatedAt = now']_vars

\* a tag was refused, as present already, at a later instant than the
\* task was last changed
C25_Witness ==
    /\ last.op = "addTag"
    /\ last.ret = <<FALSE>>
    /\ NormalTag(last.text) # <<>>
    /\ last.old[1].updatedAt < now
    /\ \E i \in 1..Len(tasks) : tasks[i] = last.old[1]

\* C26: the clock not going back, the updatedAt of a task of the collection
\* never decreases from one state to the next, and a task that an operation
\* changed (toggle, updateText, setPriority, addTag, removeTag, setDueDate, a
\* field assigned by updateTask) has updatedAt at the current time.
C26_UpdatedAtMonotonic ==
    [][\A i \in 1..Len(tasks), j \in 1..Len(tasks') :
          (tasks'[j].id = tasks[i].id) =>
             /\ tasks'[j].updatedAt >= tasks[i].updatedAt
             /\ (tasks'[j] # tasks[i] => tasks'[j].updatedAt = now')]_vars

\* C27: in every reachable state no task of the collection has two tags
\* that are equal after trimming and lowercasing, whichever of addTask with
\* a tags option, addTag, removeTag, updateTask with a tags field and
\* importTasks led there.
C27_NoDuplicateTags ==
    \A i \in 1..Len(tasks) :
       \A j, k \in 1..Len(tasks[i].tags) :
          j # k => NormalTag(tasks[i].tags[j]) # NormalTag(tasks[i].tags[k])

====
